---- MODULE Spec2Model ----
(***************************************************************************)
(* Live code-execution loop of molstar-components.                         *)
(*                                                                         *)
(* EditorWithViewer (src/src/EditorWithViewer.tsx) owns the controller     *)
(* state (mvsData, error, currentCode, logs, autoUpdateEnabled and the     *)
(* debounceTimerRef slot); MolViewEditor (src/src/MolViewEditor.tsx) owns  *)
(* the Monaco widget and the listeners registered on it.  MolstarViewer    *)
(* (src/unnamed/part_004) owns the rendering engine instance: it waits for *)
(* the engine global, creates the engine, loads scene documents into it    *)
(* and disposes it.                                                        *)
(*                                                                         *)
(* One step of the model is one task or microtask of the UI event loop:    *)
(* a user event handler, a timer callback, the continuation of an awaited  *)
(* promise, a re-render, an after-paint effect flush.  Time is counted in  *)
(* ticks of 100 ms; a timer never fires before it is due and may fire      *)
(* late.                                                                   *)
(***************************************************************************)
EXTENDS Integers, Sequences, FiniteSets, TLC

\* ------------------------------------------------------------------------
\* Bounds of the model
\* ------------------------------------------------------------------------

\* executions started in one behaviour of Spec
MaxExecs == 2

\* entries appended in one behaviour of SpecLog
MaxAppends == 103

\* calls of the engine's loadMvsData in one behaviour of SpecViewer
MaxLoads == 3

\* the timeout of the wait for window.molstar, in ticks of the polling
\* interval (part_004:209-214 has 10000 ms over 100 ms: 100 ticks)
WaitTicks == 2

\* the autoRunDelay prop, in ticks (EditorWithViewer.tsx:130 defaults to 500 ms)
AutoRunDelay == 2

\* widgets created in one behaviour of SpecPage
MaxCreates == 4

\* runs of the mount effect of the polling variant in one behaviour of
\* SpecPoll
MaxRuns == 4

\* calls of one instance's onSave in one behaviour of SpecPage
MaxSaves == 2

\* ------------------------------------------------------------------------
\* Program constants and value domains
\* ------------------------------------------------------------------------

\* newLogs.slice(-100)
LogCap == 100

\* setTimeout(..., 100) of the mount-time auto-run, in ticks of 100 ms
MountDelay == 1

\* debounceTimerRef.current === null
NoTimer == 0

\* a JS null / the value of an optional that is not set
Null == <<>>

Some(x) == <<x>>

\* texts the user types, and values of the initialCode prop; "" is the
\* empty (falsy) text
Texts == {"a", "b"}
InitialCodes == {"", "a"}

\* err.message of what the interpreter throws (a value whose message can be
\* read); "" stands for a falsy or missing message
Messages == {"", "SyntaxError"}

MsgExecuting == "Executing MVS code..."
MsgSuccess == "Code executed successfully"
MsgNoScene == "Failed to retrieve scene"
MsgNoData == "Failed to generate valid MVS data"
MsgDefault == "Error executing code"

\* periodic level patterns of the entries appended under SpecLog
LogScripts == {<<"info", "success">>, <<"info", "error">>,
               <<"info", "success", "info", "error">>}

VARIABLES
    \* props of the EditorWithViewer instance
    autoRun, initialCode,
    \* EditorWithViewer state and refs
    mounted, mvsData, error, currentCode, logs, autoUpdateEnabled,
    debounceTimerRef,
    \* the browser's pending timers created by this instance
    timers,
    \* executions suspended at await storyManager.toMVS
    inflight,
    \* MolViewEditor: widget, its text, the onCodeChange closure it holds,
    \* the initialCode prop of the last render and the queued sync effect
    editorRef, editorValue, onCodeChangeRef, renderedCode, pendingSync,
    \* a re-render of EditorWithViewer is queued
    dirty,
    \* history: entries ever appended, executions ever started, the message
    \* of the err behind the current error and the number of the execution
    \* that caught it (0 when there is no error), the last event handled, the
    \* current burst of change notifications, ticks since the last
    \* notification, the level pattern of SpecLog
    appended, nStarted, caught, errorOf, lastEvent, burst, sinceEdit,
    logScript,
    \* history: the user has acted on the instance since it was mounted
    userActed,
    \* history: the scene documents that successful executions produced
    produced,
    \* who renders the MolstarViewer instance: "EditorWithViewer" or a
    \* "standalone" parent that passes the callbacks
    host,
    \* MolstarViewer: "none" before it is mounted, "mounted", "gone" after
    viewerLife,
    \* MolstarViewer props and state: the mvsData prop of the last render and
    \* of the first render, the current state values, and the state values
    \* the closures of the last render captured
    mvsDataProp, firstMvsData, isInitialized, isLoading,
    renderedIsInitialized, renderedIsLoading,
    \* the load effect is queued; a re-render of MolstarViewer is queued
    pendingLoadEffect, viewerDirty,
    \* viewerRef.current is set
    viewerRef,
    \* window.molstar.Viewer is available
    molstar,
    \* initViewer: "idle", "waiting" for the global, "creating" (awaiting
    \* Viewer.create), "done", "timedOut", "failed"
    initPc,
    \* the polling interval and the timeout of the wait
    checkMolstar, pollDue, timeoutPending, timeoutLeft,
    \* the engine instance ("none", "live", "disposed", "disposeFailed"), the
    \* calls of loadMvsData that have not settled, the number of calls made
    \* and the documents passed
    engine, engineLoads, nLoads, passed,
    \* history: calls of onError and onMVSLoaded, errors raised in
    \* MolstarViewer, and what the last step of MolstarViewer did
    onErrorCalls, onMVSLoadedCalls, raised, viewerEvent,
    \* a page with several MolViewEditor instances: per instance whether its
    \* effect has run (listener registered) and the widget editorRef.current
    \* holds (0 for null) with the model option it was created with; the
    \* number of widgets monaco.editor.create has made
    instances, created,
    \* history: calls of each instance's onSave, and the last keydown event
    \* with what was done to it
    onSaveCalls, keyEvent,
    \* the MolViewEditor variant that polls for window.monaco: the global is
    \* there; the instance is "none", "mounted" or "gone"; the number of
    \* pending setTimeout(initEditor, 100); editorRef.current (0 for null);
    \* the widgets created so far; the number of runs of the mount effect
    monaco, pollLife, pollTimeouts, pollEditorRef, pollWidgets, pollRuns,
    \* history: what the last step of the polling variant did
    pollEvent

vars == <<autoRun, initialCode, mounted, mvsData, error, currentCode, logs,
          autoUpdateEnabled, debounceTimerRef, timers, inflight, editorRef,
          editorValue, onCodeChangeRef, renderedCode, pendingSync, dirty,
          appended, nStarted, caught, errorOf, lastEvent, burst, sinceEdit,
          logScript, userActed, produced, host, viewerLife, mvsDataProp,
          firstMvsData, isInitialized, isLoading, renderedIsInitialized,
          renderedIsLoading, pendingLoadEffect, viewerDirty, viewerRef,
          molstar, initPc, checkMolstar, pollDue, timeoutPending, timeoutLeft,
          engine, engineLoads, nLoads, passed, onErrorCalls,
          onMVSLoadedCalls, raised, viewerEvent, instances, created,
          onSaveCalls, keyEvent, monaco, pollLife, pollTimeouts,
          pollEditorRef, pollWidgets, pollRuns, pollEvent>>

propVars == <<autoRun, initialCode>>
pageVars == <<instances, created, onSaveCalls, keyEvent>>
pollVars == <<monaco, pollLife, pollTimeouts, pollEditorRef, pollWidgets,
              pollRuns, pollEvent>>
execVars == <<mvsData, error, logs, appended, inflight, nStarted, caught,
              errorOf>>
timerVars == <<debounceTimerRef, timers>>
editorVars == <<editorRef, editorValue, onCodeChangeRef>>

\* the MolstarViewer instance, its engine and its environment
viewerVars == <<host, viewerLife, mvsDataProp, firstMvsData, isInitialized,
                isLoading, renderedIsInitialized, renderedIsLoading,
                pendingLoadEffect, viewerDirty, viewerRef, molstar, initPc,
                checkMolstar, pollDue, timeoutPending, timeoutLeft, engine,
                engineLoads, nLoads, passed, onErrorCalls, onMVSLoadedCalls,
                raised, viewerEvent>>

\* the EditorWithViewer instance with its editor
controllerVars == <<autoRun, initialCode, mounted, mvsData, error,
                    currentCode, logs, autoUpdateEnabled, debounceTimerRef,
                    timers, inflight, editorRef, editorValue, onCodeChangeRef,
                    renderedCode, pendingSync, dirty, appended, nStarted,
                    caught, errorOf, lastEvent, burst, sinceEdit, logScript,
                    userActed,
                    produced>>

\* ------------------------------------------------------------------------
\* Helpers
\* ------------------------------------------------------------------------

Min(a, b) == IF a < b THEN a ELSE b

\* Array.prototype.slice(-n)
SliceLast(s, n) ==
    IF Len(s) <= n THEN s ELSE SubSeq(s, Len(s) - n + 1, Len(s))

LogEntry(ts, level, message) ==
    [timestamp |-> ts, level |-> level, message |-> message]

\* a log that stops taking entries once it is full
addLogKeepFirst(prev, ts, level, message) ==
    SubSeq(Append(prev, LogEntry(ts, level, message)), 1,
           Min(Len(prev) + 1, LogCap))

\* addLog: setLogs(prev => [...prev, entry].slice(-100)); the timestamp ts
\* is the number of the append
addLog(prev, ts, level, message) ==
    SliceLast(Append(prev, LogEntry(ts, level, message)), LogCap)

\* the message of the thrown value as it is, without the default
ErrorMsgRaw(m) == m

\* err.message || "Error executing code"
ErrorMsg(m) == IF m = "" THEN MsgDefault ELSE m

TimerIds(ts) == {t.id : t \in ts}

\* the id setTimeout returns: one that no pending timer and no ref holds
FreshTimerId(ts, ref) ==
    CHOOSE n \in 1..(Cardinality(ts) + 2) :
        /\ n \notin TimerIds(ts) \cup {ref}
        /\ \A k \in 1..(n - 1) : k \in TimerIds(ts) \cup {ref}

\* clearTimeout(id): no effect when id names no pending timer
ClearTimeout(ts, id) == {t \in ts : t.id # id}

PendingDebounce == {t \in timers : t.kind = "debounce"}
PendingMount == {t \in timers : t.kind = "mount"}

InflightIds == {e.id : e \in inflight}

\* the scene document an execution produces
Doc(e) == [exec |-> e.id]

\* ------------------------------------------------------------------------
\* executeCode (EditorWithViewer.tsx:154-194)
\* ------------------------------------------------------------------------

\* what the model remembers of the last event: "save" for a commit gesture,
\* "settledAfterOff" for the settling of an execution during which automatic
\* mode was switched off, "other" for anything else
SettleEvent(e) == IF e.sawOff THEN "settledAfterOff" ELSE "other"

\* a catch block that also drops the scene document
executeCodeCatchClearing(prev, ts, m) ==
    /\ logs' = addLog(prev, ts, "error", ErrorMsg(m))
    /\ appended' = ts
    /\ error' = Some(ErrorMsg(m))
    /\ caught' = Some(m)
    /\ mvsData' = Null

\* a catch block that logs the failure and does not set error
executeCodeCatchNoSetError(prev, ts, m) ==
    /\ logs' = addLog(prev, ts, "error", ErrorMsg(m))
    /\ appended' = ts
    /\ error' = error
    /\ caught' = caught
    /\ mvsData' = mvsData

\* catch (err): addLog("error", errorMsg); setError(errorMsg), with prev the
\* log before the entry and m the err.message
executeCodeCatch(prev, ts, m) ==
    /\ logs' = addLog(prev, ts, "error", ErrorMsg(m))
    /\ appended' = ts
    /\ error' = Some(ErrorMsg(m))
    /\ caught' = Some(m)
    /\ mvsData' = mvsData

\* setError(null); addLog("info", ...); ...; await storyManager.toMVS([scene])
executeCodeAwait(code) ==
    /\ error' = Null
    /\ caught' = Null
    /\ errorOf' = 0
    /\ logs' = addLog(logs, appended + 1, "info", MsgExecuting)
    /\ appended' = appended + 1
    /\ inflight' = inflight \cup {[id |-> nStarted + 1, code |-> code,
                                   sawOff |-> FALSE]}
    /\ nStarted' = nStarted + 1
    /\ mvsData' = mvsData

\* addScene throws, or getScene returns nothing: caught before the await
executeCodeThrow(code, m) ==
    /\ executeCodeCatch(addLog(logs, appended + 1, "info", MsgExecuting),
                        appended + 2, m)
    /\ errorOf' = nStarted + 1
    /\ nStarted' = nStarted + 1
    /\ inflight' = inflight

executeCode(code) ==
    /\ nStarted < MaxExecs
    /\ \/ executeCodeAwait(code)
       \/ executeCodeThrow(code, MsgNoScene)

\* a continuation that drops its result when automatic mode was switched off
\* during the await
executeCodeSuccessIfNotSwitchedOff(e) ==
    /\ inflight' = inflight \ {e}
    /\ nStarted' = nStarted
    /\ IF e.sawOff
       THEN UNCHANGED <<logs, appended, mvsData, error, caught, errorOf>>
       ELSE /\ logs' = addLog(logs, appended + 1, "success", MsgSuccess)
            /\ appended' = appended + 1
            /\ mvsData' = Some(Doc(e))
            /\ error' = error
            /\ caught' = caught
            /\ errorOf' = errorOf

\* the continuation after the await, with a truthy result
executeCodeSuccess(e) ==
    /\ inflight' = inflight \ {e}
    /\ nStarted' = nStarted
    /\ logs' = addLog(logs, appended + 1, "success", MsgSuccess)
    /\ appended' = appended + 1
    /\ mvsData' = Some(Doc(e))
    /\ error' = error
    /\ caught' = caught
    /\ errorOf' = errorOf

\* a continuation that sets the error without logging it
executeCodeFailureNoLog(e, m) ==
    /\ inflight' = inflight \ {e}
    /\ nStarted' = nStarted
    /\ UNCHANGED <<logs, appended, mvsData>>
    /\ error' = Some(ErrorMsg(m))
    /\ caught' = Some(m)
    /\ errorOf' = e.id

\* a failing continuation that leaves a scene document behind
executeCodeFailureWithScene(e, m) ==
    /\ inflight' = inflight \ {e}
    /\ nStarted' = nStarted
    /\ logs' = addLog(logs, appended + 1, "error", ErrorMsg(m))
    /\ appended' = appended + 1
    /\ error' = Some(ErrorMsg(m))
    /\ caught' = Some(m)
    /\ errorOf' = e.id
    /\ mvsData' = Some(Doc(e))

\* the continuation after the await, when toMVS rejects with m or returns a
\* falsy result (then m is "Failed to generate valid MVS data")
executeCodeFailure(e, m) ==
    /\ inflight' = inflight \ {e}
    /\ nStarted' = nStarted
    /\ executeCodeCatch(logs, appended + 1, m)
    /\ errorOf' = e.id

\* ------------------------------------------------------------------------
\* handleSave, handleCodeChange (EditorWithViewer.tsx:196-220)
\* ------------------------------------------------------------------------

\* a save handler that executes in manual mode only
handleSaveManualOnly(code) ==
    IF autoUpdateEnabled
    THEN UNCHANGED execVars
    ELSE executeCode(code)

\* handleSave: executeCode(code)
handleSave(code) == executeCode(code)

DebounceTimer(id, code) ==
    [id |-> id, kind |-> "debounce", code |-> code, remaining |-> AutoRunDelay]

\* arming without cancelling the timer armed before
armDebounceNoClear(code) ==
    LET id == FreshTimerId(timers, debounceTimerRef) IN
    /\ timers' = timers \cup {DebounceTimer(id, code)}
    /\ debounceTimerRef' = id

\* if (ref !== null) clearTimeout(ref); ref = setTimeout(..., autoRunDelay)
armDebounce(code) ==
    LET id == FreshTimerId(timers, debounceTimerRef)
        kept == IF debounceTimerRef # NoTimer
                THEN ClearTimeout(timers, debounceTimerRef)
                ELSE timers
    IN
    /\ timers' = kept \cup {DebounceTimer(id, code)}
    /\ debounceTimerRef' = id

\* the burst of notifications continues while each one arrives less than
\* autoRunDelay after the one before
BurstAfterChange(code) ==
    IF burst.active /\ sinceEdit < AutoRunDelay
    THEN [burst EXCEPT !.auto = @ /\ autoUpdateEnabled]
    ELSE [active |-> TRUE, auto |-> autoUpdateEnabled, execs |-> 0,
          execCode |-> ""]

\* the handleCodeChange instance that the widget's content listener holds;
\* its autoUpdateEnabled is the one of the render that created it
handleCodeChange(code) ==
    /\ currentCode' = code
    /\ IF onCodeChangeRef.autoUpdateEnabled
       THEN armDebounce(code)
       ELSE UNCHANGED timerVars
    /\ burst' = BurstAfterChange(code)
    /\ sinceEdit' = 0

\* ------------------------------------------------------------------------
\* MolViewEditor (MolViewEditor.tsx:93-218)
\* ------------------------------------------------------------------------

\* a sync effect that calls setValue without comparing the texts; the widget
\* then notifies its content listener
syncEffectAlways(c) ==
    IF editorRef
    THEN /\ editorValue' = c
         /\ handleCodeChange(c)
    ELSE UNCHANGED <<editorValue, currentCode, timerVars, burst, sinceEdit>>

\* useEffect(..., [initialCode, isReady]) with initialCode = c captured
syncEffect(c) ==
    IF editorRef /\ editorValue # c
    THEN /\ editorValue' = c
         /\ handleCodeChange(c)
    ELSE UNCHANGED <<editorValue, currentCode, timerVars, burst, sinceEdit>>

\* ------------------------------------------------------------------------
\* Initial state: the instance is mounted, its mount effects have run and
\* the re-render after setIsReady(true) has queued the sync effect
\* ------------------------------------------------------------------------

MountTimer(code) ==
    [id |-> 1, kind |-> "mount", code |-> code, remaining |-> MountDelay]

\* no MolstarViewer has been rendered: mvsData is null
NoViewer(h) ==
    /\ host = h
    /\ viewerLife = "none"
    /\ mvsDataProp = Null /\ firstMvsData = Null
    /\ isInitialized = FALSE /\ isLoading = FALSE
    /\ renderedIsInitialized = FALSE /\ renderedIsLoading = FALSE
    /\ pendingLoadEffect = FALSE /\ viewerDirty = FALSE
    /\ viewerRef = FALSE
    /\ initPc = "idle"
    /\ checkMolstar = FALSE /\ pollDue = FALSE
    /\ timeoutPending = FALSE /\ timeoutLeft = 0
    /\ engine = "none" /\ engineLoads = {} /\ nLoads = 0 /\ passed = {}
    /\ onErrorCalls = 0 /\ onMVSLoadedCalls = 0 /\ raised = 0
    /\ viewerEvent = "other"

\* the MolViewEditor instances of the page
Ids == {1, 2}

NoKey == [target |-> 0, key |-> "", mod |-> FALSE, preventedBy |-> {},
          stopped |-> FALSE, command |-> {}]

NoInstance == [mounted |-> FALSE, editorRef |-> 0, model |-> Null]

\* no page of editors is followed
NoPage ==
    /\ instances = [i \in Ids |-> NoInstance]
    /\ created = 0
    /\ onSaveCalls = [i \in Ids |-> 0]
    /\ keyEvent = NoKey

\* no instance of the polling variant is followed
NoPoll ==
    /\ monaco = FALSE
    /\ pollLife = "none"
    /\ pollTimeouts = 0
    /\ pollEditorRef = 0
    /\ pollWidgets = {}
    /\ pollRuns = 0
    /\ pollEvent = "other"

NoBurst == [active |-> FALSE, auto |-> FALSE, execs |-> 0, execCode |-> ""]

\* the controller alone: the state of EditorWithViewer and its editor
InitController(ar, ic, script) ==
    /\ autoRun = ar
    /\ initialCode = ic
    /\ mounted = TRUE
    /\ mvsData = Null
    /\ error = Null
    /\ currentCode = ic
    /\ logs = <<>>
    /\ autoUpdateEnabled = ar
    /\ debounceTimerRef = NoTimer
    /\ timers = IF ar /\ ic # "" THEN {MountTimer(ic)} ELSE {}
    /\ inflight = {}
    /\ editorRef = TRUE
    /\ editorValue = ic
    /\ onCodeChangeRef = [autoUpdateEnabled |-> ar]
    /\ renderedCode = ic
    /\ pendingSync = Some(ic)
    /\ dirty = FALSE
    /\ appended = 0
    /\ nStarted = 0
    /\ caught = Null
    /\ errorOf = 0
    /\ lastEvent = "other"
    /\ burst = NoBurst
    /\ sinceEdit = 0
    /\ logScript = script
    /\ userActed = FALSE
    /\ produced = {}

\* Spec follows the controller and leaves the viewer out: EditorWithViewer
\* passes no callback to MolstarViewer, which writes none of its state
InitWith(ar, ic, script) ==
    /\ InitController(ar, ic, script)
    /\ NoViewer("EditorWithViewer")
    /\ molstar = FALSE
    /\ NoPage
    /\ NoPoll

Init == \E ar \in BOOLEAN, ic \in InitialCodes : InitWith(ar, ic, <<>>)

\* ------------------------------------------------------------------------
\* Actions
\* ------------------------------------------------------------------------

\* the user changes the text in the widget: onDidChangeModelContent
Edit(t) ==
    /\ mounted /\ ~dirty /\ editorRef
    /\ t # editorValue
    /\ editorValue' = t
    /\ handleCodeChange(t)
    /\ dirty' = (currentCode' # currentCode)
    /\ UNCHANGED <<propVars, pageVars, pollVars, mounted, execVars, autoUpdateEnabled, editorRef,
                   onCodeChangeRef, renderedCode, pendingSync, logScript>>
    /\ lastEvent' = "other"
    /\ UNCHANGED <<produced, viewerVars>>
    /\ userActed' = TRUE

\* a commit gesture that cancels the pending debounce timer
KeyDownSaveCancelling ==
    /\ mounted /\ ~dirty /\ editorRef
    /\ nStarted < MaxExecs
    /\ handleSave(editorValue)
    /\ timers' = ClearTimeout(timers, debounceTimerRef)
    /\ debounceTimerRef' = NoTimer
    /\ lastEvent' = "save"
    /\ UNCHANGED <<produced, viewerVars>>
    /\ userActed' = TRUE
    /\ dirty' = (logs' # logs)
    /\ UNCHANGED <<propVars, pageVars, pollVars, mounted, currentCode, autoUpdateEnabled,
                   editorVars, renderedCode, pendingSync, burst,
                   sinceEdit, logScript>>

\* handleKeyDown: Ctrl/Cmd+S with the target inside the container
KeyDownSave ==
    /\ mounted /\ ~dirty /\ editorRef
    /\ nStarted < MaxExecs
    /\ handleSave(editorValue)
    /\ lastEvent' = "save"
    /\ UNCHANGED <<produced, viewerVars>>
    /\ userActed' = TRUE
    /\ dirty' = (logs' # logs)
    /\ UNCHANGED <<propVars, pageVars, pollVars, mounted, currentCode, autoUpdateEnabled,
                   timerVars, editorVars, renderedCode, pendingSync, burst,
                   sinceEdit, logScript>>

\* the checkbox: onChange: setAutoUpdateEnabled(e.target.checked)
ToggleAutoUpdate ==
    /\ mounted /\ ~dirty
    /\ autoUpdateEnabled' = ~autoUpdateEnabled
    /\ inflight' = {[e EXCEPT !.sawOff = @ \/ autoUpdateEnabled] : e \in inflight}
    /\ dirty' = TRUE
    /\ lastEvent' = "other"
    /\ UNCHANGED <<produced, viewerVars>>
    /\ userActed' = TRUE
    /\ UNCHANGED <<propVars, pageVars, pollVars, mounted, mvsData, error, currentCode, logs,
                   appended, nStarted, caught, errorOf, timerVars, editorVars,
                   renderedCode, pendingSync, burst, sinceEdit, logScript>>

\* 100 ms pass
Tick ==
    /\ ~dirty
    /\ \/ \E t \in timers : t.remaining > 0
       \/ burst.active /\ sinceEdit < AutoRunDelay
    /\ timers' = {[t EXCEPT !.remaining = IF @ > 0 THEN @ - 1 ELSE 0] : t \in timers}
    /\ sinceEdit' = Min(sinceEdit + 1, AutoRunDelay)
    /\ UNCHANGED <<propVars, pageVars, pollVars, mounted, execVars, currentCode, autoUpdateEnabled,
                   debounceTimerRef, editorVars, renderedCode, pendingSync,
                   dirty, burst, logScript>>
    /\ lastEvent' = "other"
    /\ UNCHANGED <<produced, viewerVars>>
    /\ UNCHANGED userActed

\* a timer that stays armed after its callback has run
FireTimerRepeating(t) ==
    /\ ~dirty
    /\ t \in timers /\ t.remaining = 0
    /\ timers' = timers
    /\ executeCode(t.code)
    /\ burst' = IF t.kind = "debounce"
                THEN [burst EXCEPT !.execs = @ + 1, !.execCode = t.code]
                ELSE burst
    /\ dirty' = mounted
    /\ UNCHANGED <<propVars, pageVars, pollVars, mounted, currentCode, autoUpdateEnabled,
                   debounceTimerRef, editorVars, renderedCode, pendingSync,
                   sinceEdit, logScript>>
    /\ lastEvent' = "other"
    /\ UNCHANGED <<produced, viewerVars>>
    /\ UNCHANGED userActed

\* a due timer runs its callback: executeCode(code)
FireTimer(t) ==
    /\ ~dirty
    /\ t \in timers /\ t.remaining = 0
    /\ timers' = timers \ {t}
    /\ executeCode(t.code)
    /\ burst' = IF t.kind = "debounce"
                THEN [burst EXCEPT !.execs = @ + 1, !.execCode = t.code]
                ELSE burst
    /\ dirty' = mounted
    /\ UNCHANGED <<propVars, pageVars, pollVars, mounted, currentCode, autoUpdateEnabled,
                   debounceTimerRef, editorVars, renderedCode, pendingSync,
                   sinceEdit, logScript>>
    /\ lastEvent' = "other"
    /\ UNCHANGED <<produced, viewerVars>>
    /\ UNCHANGED userActed

\* storyManager.toMVS settles and executeCode resumes
Settle(e) ==
    /\ e \in inflight
    /\ \/ executeCodeSuccess(e) /\ produced' = produced \cup {Doc(e)}
       \/ /\ \E m \in Messages \cup {MsgNoData} : executeCodeFailure(e, m)
          /\ produced' = produced
    /\ dirty' = mounted
    /\ UNCHANGED <<propVars, pageVars, pollVars, mounted, currentCode, autoUpdateEnabled,
                   timerVars, editorVars, renderedCode, pendingSync, burst,
                   sinceEdit, logScript>>
    /\ lastEvent' = SettleEvent(e)
    /\ UNCHANGED viewerVars
    /\ UNCHANGED userActed

\* the queued re-render: EditorWithViewer renders with currentCode, then
\* MolViewEditor flushes its pending effect and renders with the new prop
renderEditorWithViewer ==
    /\ mounted /\ dirty
    /\ IF pendingSync # Null
       THEN syncEffect(pendingSync[1])
       ELSE UNCHANGED <<editorValue, currentCode, timerVars, burst, sinceEdit>>
    /\ pendingSync' = IF currentCode # renderedCode THEN Some(currentCode) ELSE Null
    /\ renderedCode' = currentCode
    /\ dirty' = (currentCode' # currentCode)
    /\ lastEvent' = "other"
    /\ UNCHANGED produced
    /\ UNCHANGED userActed
    /\ UNCHANGED <<propVars, pageVars, pollVars, mounted, execVars, autoUpdateEnabled, editorRef,
                   onCodeChangeRef, logScript>>

\* the re-render in Spec, where no MolstarViewer is followed
Render == renderEditorWithViewer /\ UNCHANGED viewerVars

\* after paint the queued effect of MolViewEditor runs
FlushEffects ==
    /\ mounted /\ ~dirty
    /\ pendingSync # Null
    /\ syncEffect(pendingSync[1])
    /\ pendingSync' = Null
    /\ dirty' = (currentCode' # currentCode)
    /\ UNCHANGED <<propVars, pageVars, pollVars, mounted, execVars, autoUpdateEnabled, editorRef,
                   onCodeChangeRef, renderedCode, logScript>>
    /\ lastEvent' = "other"
    /\ UNCHANGED <<produced, viewerVars>>
    /\ UNCHANGED userActed

\* a teardown that leaves the timer of the mount effect armed
UnmountKeepingMountTimer ==
    /\ mounted
    /\ mounted' = FALSE
    /\ timers' = IF debounceTimerRef # NoTimer
                 THEN ClearTimeout(timers, debounceTimerRef)
                 ELSE timers
    /\ editorRef' = FALSE
    /\ pendingSync' = Null
    /\ dirty' = FALSE
    /\ UNCHANGED <<propVars, pageVars, pollVars, execVars, currentCode, autoUpdateEnabled,
                   debounceTimerRef, editorValue, onCodeChangeRef,
                   renderedCode, burst, sinceEdit, logScript>>
    /\ lastEvent' = "other"
    /\ UNCHANGED <<produced, viewerVars>>
    /\ userActed' = TRUE

\* the effect cleanups of both components: clearTimeout(timer) of the mount
\* effect, clearTimeout(debounceTimerRef.current), editor.dispose()
unmountEditorWithViewer ==
    /\ mounted
    /\ mounted' = FALSE
    /\ timers' = IF debounceTimerRef # NoTimer
                 THEN ClearTimeout(timers \ PendingMount, debounceTimerRef)
                 ELSE timers \ PendingMount
    /\ editorRef' = FALSE
    /\ pendingSync' = Null
    /\ dirty' = FALSE
    /\ UNCHANGED <<propVars, pageVars, pollVars, execVars, currentCode, autoUpdateEnabled,
                   debounceTimerRef, editorValue, onCodeChangeRef,
                   renderedCode, burst, sinceEdit, logScript>>
    /\ lastEvent' = "other"
    /\ UNCHANGED produced
    /\ userActed' = TRUE

\* the unmount in Spec, where no MolstarViewer is followed
Unmount == unmountEditorWithViewer /\ UNCHANGED viewerVars

Next ==
    \/ \E t \in Texts : Edit(t)
    \/ KeyDownSave
    \/ ToggleAutoUpdate
    \/ Tick
    \/ \E t \in timers : FireTimer(t)
    \/ \E e \in inflight : Settle(e)
    \/ Render
    \/ FlushEffects
    \/ Unmount

Spec == Init /\ [][Next]_vars

\* the event loop keeps running: time passes, due timers fire, queued
\* re-renders happen, and the interpreter settles every execution it is given
SpecLive ==
    /\ Spec
    /\ WF_vars(Tick)
    /\ WF_vars(\E t \in timers : FireTimer(t))
    /\ WF_vars(\E e \in inflight : Settle(e))
    /\ WF_vars(Render)

\* ------------------------------------------------------------------------
\* addLog on its own: entries appended one after the other
\* ------------------------------------------------------------------------

ScriptLevel(k) == logScript[((k - 1) % Len(logScript)) + 1]

ScriptMessage(level) ==
    IF level = "info" THEN MsgExecuting
    ELSE IF level = "success" THEN MsgSuccess ELSE MsgDefault

\* the k-th entry appended under SpecLog
ScriptEntry(k) == LogEntry(k, ScriptLevel(k), ScriptMessage(ScriptLevel(k)))

InitLog == \E script \in LogScripts : InitWith(FALSE, "", script)

AppendLog ==
    /\ appended < MaxAppends
    /\ logs' = addLog(logs, appended + 1, ScriptLevel(appended + 1),
                      ScriptMessage(ScriptLevel(appended + 1)))
    /\ appended' = appended + 1
    /\ UNCHANGED <<propVars, pageVars, pollVars, mounted, mvsData, error, currentCode,
                   autoUpdateEnabled, timerVars, inflight, editorVars,
                   renderedCode, pendingSync, dirty, nStarted,
                   caught, errorOf, lastEvent, burst, sinceEdit, logScript,
                   userActed, produced, viewerVars>>

NextLog == AppendLog

SpecLog == InitLog /\ [][NextLog]_vars

TypeOK ==
    /\ autoRun \in BOOLEAN /\ initialCode \in InitialCodes
    /\ mounted \in BOOLEAN /\ autoUpdateEnabled \in BOOLEAN
    /\ currentCode \in Texts \cup InitialCodes
    /\ editorValue \in Texts \cup InitialCodes
    /\ mvsData \in {Null} \cup {Some([exec |-> n]) : n \in 1..nStarted}
    /\ (error = Null) <=> (caught = Null)
    /\ (error = Null) <=> (errorOf = 0)
    /\ errorOf \in 0..nStarted
    /\ Len(logs) <= LogCap
    /\ debounceTimerRef \in 0..4
    /\ \A t \in timers : t.remaining \in 0..AutoRunDelay
    /\ InflightIds \subseteq 1..nStarted
    /\ (mounted /\ ~dirty) => editorValue = currentCode
    /\ userActed \in BOOLEAN

\* ------------------------------------------------------------------------
\* MolstarViewer (src/unnamed/part_004:139-297)
\*
\* One step is one task of the event loop, as above.  A render of the
\* component captures the state values in the closures of that render
\* (loadMVSDataHelper and the load effect read isLoading and isInitialized
\* from there); a render sees every state update made before it, and the
\* effects a render queued run before the next render of the component.
\* ------------------------------------------------------------------------

\* values of the mvsData prop a standalone parent passes
ParentDocs == {Null, Some([exec |-> 1]), Some([exec |-> 2])}

Hosts == {"EditorWithViewer", "standalone"}

loadVars == <<isLoading, engineLoads, nLoads, passed, onErrorCalls,
              onMVSLoadedCalls, raised>>

waitVars == <<checkMolstar, pollDue, timeoutPending, timeoutLeft>>

\* catch (error) { if (onError) onError(error) }: EditorWithViewer passes no
\* onError
reportError ==
    /\ raised' = raised + 1
    /\ onErrorCalls' = IF host = "standalone" THEN onErrorCalls + 1
                       ELSE onErrorCalls

\* a helper that loads whatever the loading flag says
loadMVSDataHelperNoGuard(closureIsLoading, doc) ==
    /\ nLoads < MaxLoads
    /\ nLoads' = nLoads + 1
    /\ passed' = passed \cup {doc}
    /\ engineLoads' = engineLoads \cup {[id |-> nLoads + 1, doc |-> doc]}
    /\ isLoading' = TRUE
    /\ UNCHANGED <<onErrorCalls, onMVSLoadedCalls, raised>>
    /\ viewerEvent' = "loadStarted"

\* a helper that reports the load it drops and resets the flag
loadMVSDataHelperDropReports(closureIsLoading, doc) ==
    IF closureIsLoading
    THEN /\ reportError
         /\ isLoading' = FALSE
         /\ UNCHANGED <<engineLoads, nLoads, passed, onMVSLoadedCalls>>
         /\ viewerEvent' = "dropped"
    ELSE /\ nLoads < MaxLoads
         /\ nLoads' = nLoads + 1
         /\ passed' = passed \cup {doc}
         /\ engineLoads' = engineLoads \cup {[id |-> nLoads + 1, doc |-> doc]}
         /\ isLoading' = TRUE
         /\ UNCHANGED <<onErrorCalls, onMVSLoadedCalls, raised>>
         /\ viewerEvent' = "loadStarted"

\* a helper that starts the load without setIsLoading(true)
loadMVSDataHelperNoOverlay(closureIsLoading, doc) ==
    IF closureIsLoading
    THEN /\ UNCHANGED loadVars
         /\ viewerEvent' = "dropped"
    ELSE /\ nLoads < MaxLoads
         /\ nLoads' = nLoads + 1
         /\ passed' = passed \cup {doc}
         /\ engineLoads' = engineLoads \cup {[id |-> nLoads + 1, doc |-> doc]}
         /\ isLoading' = isLoading
         /\ UNCHANGED <<onErrorCalls, onMVSLoadedCalls, raised>>
         /\ viewerEvent' = "loadStarted"

\* loadMVSDataHelper up to its await, with the isLoading of the closure it
\* belongs to: return if loading; setIsLoading(true); viewer.loadMvsData(...)
\* either is in flight or throws at once (caught, then finally)
loadMVSDataHelper(closureIsLoading, doc) ==
    IF closureIsLoading
    THEN /\ UNCHANGED loadVars
         /\ viewerEvent' = "dropped"
    ELSE /\ nLoads < MaxLoads
         /\ nLoads' = nLoads + 1
         /\ passed' = passed \cup {doc}
         /\ \/ /\ engineLoads' = engineLoads \cup
                                   {[id |-> nLoads + 1, doc |-> doc]}
               /\ isLoading' = TRUE
               /\ UNCHANGED <<onErrorCalls, onMVSLoadedCalls, raised>>
               /\ viewerEvent' = "loadStarted"
            \/ /\ engineLoads' = engineLoads
               /\ isLoading' = FALSE
               /\ reportError
               /\ onMVSLoadedCalls' = onMVSLoadedCalls
               /\ viewerEvent' = "loadFailed"

\* the helper ran past its guard: it called a state setter
CalledSetter(event) == event \in {"loadStarted", "loadFailed"}

\* useEffect(..., [mvsData, isInitialized]) of the last render
loadEffect ==
    IF ~renderedIsInitialized \/ ~viewerRef \/ mvsDataProp = Null
    THEN /\ UNCHANGED loadVars
         /\ viewerEvent' = "other"
    ELSE loadMVSDataHelper(renderedIsLoading, mvsDataProp)

\* a render of MolstarViewer with mvsData = d: the effect the render before
\* queued runs first, then the new closures capture the state, and the load
\* effect is queued if mvsData or isInitialized changed
renderViewer(d) ==
    /\ IF pendingLoadEffect
       THEN loadEffect
       ELSE /\ UNCHANGED loadVars
            /\ viewerEvent' = "other"
    /\ mvsDataProp' = d
    /\ renderedIsInitialized' = isInitialized
    /\ renderedIsLoading' = isLoading'
    /\ pendingLoadEffect' = (d # mvsDataProp \/
                             isInitialized # renderedIsInitialized)
    /\ viewerDirty' = CalledSetter(viewerEvent')
    /\ UNCHANGED <<host, viewerLife, firstMvsData, isInitialized, viewerRef,
                   molstar, initPc, waitVars, engine>>

\* the first render and the mount effects: initViewer runs up to its first
\* await, either of the polling promise or of Viewer.create
mountViewer(d) ==
    /\ viewerLife' = "mounted"
    /\ mvsDataProp' = d
    /\ firstMvsData' = d
    /\ IF molstar
       THEN /\ initPc' = "creating"
            /\ UNCHANGED waitVars
       ELSE /\ initPc' = "waiting"
            /\ checkMolstar' = TRUE
            /\ pollDue' = FALSE
            /\ timeoutPending' = TRUE
            /\ timeoutLeft' = WaitTicks
    /\ viewerEvent' = "other"
    /\ UNCHANGED <<host, isInitialized, renderedIsInitialized,
                   renderedIsLoading, pendingLoadEffect, viewerDirty,
                   viewerRef, molstar, engine, loadVars>>

\* a cleanup that reports the error of dispose
viewerCleanupReporting ==
    /\ viewerLife' = "gone"
    /\ pendingLoadEffect' = FALSE
    /\ viewerDirty' = FALSE
    /\ IF viewerRef
       THEN /\ viewerRef' = FALSE
            /\ isInitialized' = FALSE
            /\ \/ /\ engine' = "disposed"
                  /\ viewerEvent' = "disposed"
                  /\ UNCHANGED <<onErrorCalls, raised>>
               \/ /\ engine' = "disposeFailed"
                  /\ viewerEvent' = "disposeThrew"
                  /\ reportError
       ELSE /\ UNCHANGED <<viewerRef, isInitialized, engine, onErrorCalls,
                           raised>>
            /\ viewerEvent' = "other"
    /\ UNCHANGED <<host, mvsDataProp, firstMvsData, isLoading,
                   renderedIsInitialized, renderedIsLoading, molstar, initPc,
                   waitVars, engineLoads, nLoads, passed, onMVSLoadedCalls>>

\* the cleanup of the init effect: if (viewerRef.current) { try { dispose() }
\* catch {}; viewerRef.current = null; setIsInitialized(false) }.  Neither
\* the interval nor the timeout of the wait is cleared.
viewerCleanup ==
    /\ viewerLife' = "gone"
    /\ pendingLoadEffect' = FALSE
    /\ viewerDirty' = FALSE
    /\ IF viewerRef
       THEN /\ viewerRef' = FALSE
            /\ isInitialized' = FALSE
            /\ \/ /\ engine' = "disposed"
                  /\ viewerEvent' = "disposed"
               \/ /\ engine' = "disposeFailed"
                  /\ viewerEvent' = "disposeThrew"
       ELSE /\ UNCHANGED <<viewerRef, isInitialized, engine>>
            /\ viewerEvent' = "other"
    /\ UNCHANGED <<host, mvsDataProp, firstMvsData, isLoading,
                   renderedIsInitialized, renderedIsLoading, molstar, initPc,
                   waitVars, engineLoads, nLoads, passed, onErrorCalls,
                   onMVSLoadedCalls, raised>>

\* --- actions of SpecViewer ---

\* a standalone parent renders MolstarViewer for the first time
ParentMount(d) ==
    /\ host = "standalone" /\ viewerLife = "none"
    /\ mountViewer(d)
    /\ UNCHANGED <<controllerVars, pageVars, pollVars>>

\* a standalone parent re-renders MolstarViewer with mvsData = d
ParentRender(d) ==
    /\ host = "standalone" /\ viewerLife = "mounted"
    /\ renderViewer(d)
    /\ UNCHANGED <<controllerVars, pageVars, pollVars>>

\* the re-render of EditorWithViewer: mvsData ? h(MolstarViewer, {mvsData,
\* ...}) : placeholder
HostRender ==
    /\ host = "EditorWithViewer"
    /\ renderEditorWithViewer
    /\ IF mvsData = Null \/ viewerLife = "gone"
       THEN UNCHANGED viewerVars
       ELSE IF viewerLife = "none"
            THEN mountViewer(mvsData)
            ELSE renderViewer(mvsData)

\* the re-render of MolstarViewer that one of its state setters queued
ViewerRender ==
    /\ viewerLife = "mounted" /\ viewerDirty
    /\ renderViewer(mvsDataProp)
    /\ UNCHANGED <<controllerVars, pageVars, pollVars>>

\* after paint the queued load effect runs
FlushViewerEffects ==
    /\ viewerLife = "mounted" /\ pendingLoadEffect
    /\ loadEffect
    /\ pendingLoadEffect' = FALSE
    /\ viewerDirty' = (viewerDirty \/ CalledSetter(viewerEvent'))
    /\ UNCHANGED <<host, viewerLife, mvsDataProp, firstMvsData,
                   isInitialized, renderedIsInitialized, renderedIsLoading,
                   viewerRef, molstar, initPc, waitVars, engine>>
    /\ UNCHANGED <<controllerVars, pageVars, pollVars>>

\* the script of the CDN has run: window.molstar.Viewer exists
MolstarAvailable ==
    /\ ~molstar
    /\ molstar' = TRUE
    /\ viewerEvent' = "other"
    /\ UNCHANGED <<host, viewerLife, mvsDataProp, firstMvsData,
                   isInitialized, renderedIsInitialized, renderedIsLoading,
                   pendingLoadEffect, viewerDirty, viewerRef, initPc,
                   waitVars, engine, loadVars>>
    /\ UNCHANGED <<controllerVars, pageVars, pollVars>>

\* one period of the polling interval passes
ViewerTick ==
    /\ \/ timeoutPending /\ timeoutLeft > 0
       \/ checkMolstar /\ ~pollDue
    /\ timeoutLeft' = IF timeoutLeft > 0 THEN timeoutLeft - 1 ELSE 0
    /\ pollDue' = checkMolstar
    /\ viewerEvent' = "other"
    /\ UNCHANGED <<host, viewerLife, mvsDataProp, firstMvsData,
                   isInitialized, renderedIsInitialized, renderedIsLoading,
                   pendingLoadEffect, viewerDirty, viewerRef, molstar, initPc,
                   checkMolstar, timeoutPending, engine, loadVars>>
    /\ UNCHANGED <<controllerVars, pageVars, pollVars>>

\* the callback of setInterval: if the global is there, clearInterval and
\* resolve; initViewer resumes and calls Viewer.create
PollMolstar ==
    /\ checkMolstar /\ pollDue
    /\ pollDue' = FALSE
    /\ IF molstar
       THEN /\ checkMolstar' = FALSE
            /\ initPc' = IF initPc = "waiting" THEN "creating" ELSE initPc
       ELSE UNCHANGED <<checkMolstar, initPc>>
    /\ viewerEvent' = "other"
    /\ UNCHANGED <<host, viewerLife, mvsDataProp, firstMvsData,
                   isInitialized, renderedIsInitialized, renderedIsLoading,
                   pendingLoadEffect, viewerDirty, viewerRef, molstar,
                   timeoutPending, timeoutLeft, engine, loadVars>>
    /\ UNCHANGED <<controllerVars, pageVars, pollVars>>

\* a timeout that rejects and leaves the polling interval running
WaitTimeoutKeepsPolling ==
    /\ timeoutPending /\ timeoutLeft = 0
    /\ timeoutPending' = FALSE
    /\ UNCHANGED <<checkMolstar, pollDue>>
    /\ IF initPc = "waiting"
       THEN /\ initPc' = "timedOut"
            /\ reportError
            /\ viewerEvent' = "timedOut"
       ELSE /\ UNCHANGED <<initPc, onErrorCalls, raised>>
            /\ viewerEvent' = "other"
    /\ UNCHANGED <<host, viewerLife, mvsDataProp, firstMvsData,
                   isInitialized, renderedIsInitialized, renderedIsLoading,
                   pendingLoadEffect, viewerDirty, viewerRef, molstar,
                   timeoutLeft, engine, isLoading, engineLoads, nLoads,
                   passed, onMVSLoadedCalls>>
    /\ UNCHANGED <<controllerVars, pageVars, pollVars>>

\* the callback of setTimeout(..., 10000): clearInterval and reject; if the
\* promise is still pending initViewer resumes in its catch block
WaitTimeout ==
    /\ timeoutPending /\ timeoutLeft = 0
    /\ timeoutPending' = FALSE
    /\ checkMolstar' = FALSE
    /\ pollDue' = FALSE
    /\ IF initPc = "waiting"
       THEN /\ initPc' = "timedOut"
            /\ reportError
            /\ viewerEvent' = "timedOut"
       ELSE /\ UNCHANGED <<initPc, onErrorCalls, raised>>
            /\ viewerEvent' = "other"
    /\ UNCHANGED <<host, viewerLife, mvsDataProp, firstMvsData,
                   isInitialized, renderedIsInitialized, renderedIsLoading,
                   pendingLoadEffect, viewerDirty, viewerRef, molstar,
                   timeoutLeft, engine, isLoading, engineLoads, nLoads,
                   passed, onMVSLoadedCalls>>
    /\ UNCHANGED <<controllerVars, pageVars, pollVars>>

\* Viewer.create settles and initViewer resumes: viewerRef.current = viewer;
\* setIsInitialized(true); if (mvsData) loadMVSDataHelper(viewer), both of
\* the first render; or the catch block
CreateSettle ==
    /\ initPc = "creating"
    /\ \/ /\ initPc' = "done"
          /\ engine' = "live"
          /\ viewerRef' = TRUE
          /\ isInitialized' = TRUE
          /\ viewerDirty' = (viewerLife = "mounted")
          /\ IF firstMvsData # Null
             THEN loadMVSDataHelper(FALSE, firstMvsData)
             ELSE /\ UNCHANGED loadVars
                  /\ viewerEvent' = "created"
       \/ /\ initPc' = "failed"
          /\ reportError
          /\ viewerEvent' = "createFailed"
          /\ UNCHANGED <<engine, viewerRef, isInitialized, viewerDirty,
                         isLoading, engineLoads, nLoads, passed,
                         onMVSLoadedCalls>>
    /\ UNCHANGED <<host, viewerLife, mvsDataProp, firstMvsData,
                   renderedIsInitialized, renderedIsLoading,
                   pendingLoadEffect, molstar, waitVars>>
    /\ UNCHANGED <<controllerVars, pageVars, pollVars>>

\* a continuation that resets the loading flag only after a successful load
LoadSettleKeepsFlag(l) ==
    /\ l \in engineLoads
    /\ engineLoads' = engineLoads \ {l}
    /\ viewerDirty' = (viewerDirty \/ viewerLife = "mounted")
    /\ \/ /\ onMVSLoadedCalls' = IF host = "standalone"
                                 THEN onMVSLoadedCalls + 1
                                 ELSE onMVSLoadedCalls
          /\ UNCHANGED <<onErrorCalls, raised>>
          /\ viewerEvent' = "loaded"
          /\ isLoading' = FALSE
       \/ /\ reportError
          /\ onMVSLoadedCalls' = onMVSLoadedCalls
          /\ viewerEvent' = "loadFailed"
          /\ isLoading' = isLoading
    /\ UNCHANGED <<host, viewerLife, mvsDataProp, firstMvsData,
                   isInitialized, renderedIsInitialized, renderedIsLoading,
                   pendingLoadEffect, viewerRef, molstar, initPc, waitVars,
                   engine, nLoads, passed>>
    /\ UNCHANGED <<controllerVars, pageVars, pollVars>>

\* viewer.loadMvsData settles and loadMVSDataHelper resumes: onMVSLoaded, or
\* the catch block; finally setIsLoading(false)
LoadSettle(l) ==
    /\ l \in engineLoads
    /\ engineLoads' = engineLoads \ {l}
    /\ isLoading' = FALSE
    /\ viewerDirty' = (viewerDirty \/ viewerLife = "mounted")
    /\ \/ /\ onMVSLoadedCalls' = IF host = "standalone"
                                 THEN onMVSLoadedCalls + 1
                                 ELSE onMVSLoadedCalls
          /\ UNCHANGED <<onErrorCalls, raised>>
          /\ viewerEvent' = "loaded"
       \/ /\ reportError
          /\ onMVSLoadedCalls' = onMVSLoadedCalls
          /\ viewerEvent' = "loadFailed"
    /\ UNCHANGED <<host, viewerLife, mvsDataProp, firstMvsData,
                   isInitialized, renderedIsInitialized, renderedIsLoading,
                   pendingLoadEffect, viewerRef, molstar, initPc, waitVars,
                   engine, nLoads, passed>>
    /\ UNCHANGED <<controllerVars, pageVars, pollVars>>

\* a standalone parent stops rendering MolstarViewer
ViewerUnmount ==
    /\ host = "standalone" /\ viewerLife = "mounted"
    /\ viewerCleanup
    /\ UNCHANGED <<controllerVars, pageVars, pollVars>>

\* EditorWithViewer is unmounted, and MolstarViewer with it
HostUnmount ==
    /\ host = "EditorWithViewer"
    /\ unmountEditorWithViewer
    /\ IF viewerLife = "mounted"
       THEN viewerCleanup
       ELSE UNCHANGED viewerVars

\* SpecViewer follows one MolstarViewer instance under either host.  Under
\* EditorWithViewer the executions are started by commit gestures.
InitViewer ==
    \E h \in Hosts, available \in BOOLEAN :
        /\ InitController(FALSE, "", <<>>)
        /\ NoViewer(h)
        /\ molstar = available
        /\ NoPage
        /\ NoPoll

NextViewer ==
    \/ \E d \in ParentDocs : ParentMount(d)
    \/ \E d \in ParentDocs : ParentRender(d)
    \/ host = "EditorWithViewer" /\ KeyDownSave
    \/ host = "EditorWithViewer" /\ \E e \in inflight : Settle(e)
    \/ HostRender
    \/ ViewerRender
    \/ FlushViewerEffects
    \/ MolstarAvailable
    \/ ViewerTick
    \/ PollMolstar
    \/ WaitTimeout
    \/ CreateSettle
    \/ \E l \in engineLoads : LoadSettle(l)
    \/ ViewerUnmount
    \/ HostUnmount

SpecViewer == InitViewer /\ [][NextViewer]_vars

\* the timers of the wait keep running
SpecViewerLive ==
    /\ SpecViewer
    /\ WF_vars(ViewerTick)
    /\ WF_vars(WaitTimeout)

TypeOKViewer ==
    /\ host \in Hosts
    /\ viewerLife \in {"none", "mounted", "gone"}
    /\ initPc \in {"idle", "waiting", "creating", "done", "timedOut", "failed"}
    /\ engine \in {"none", "live", "disposed", "disposeFailed"}
    /\ timeoutLeft \in 0..WaitTicks
    /\ nLoads \in 0..MaxLoads
    /\ \A l \in engineLoads : l.id \in 1..nLoads /\ l.doc \in passed
    /\ onErrorCalls <= raised
    /\ viewerRef => engine = "live"
    /\ (viewerLife = "none") => (initPc = "idle" /\ engine = "none")

\* ------------------------------------------------------------------------
\* A page with several MolViewEditor instances (MolViewEditor.tsx:93-208)
\* ------------------------------------------------------------------------

\* the targets of a key event: inside the container of an instance, or
\* elsewhere in the document (0)
Targets == Ids \cup {0}

\* e.key of Ctrl/Cmd+S: "s", or "S" under Caps Lock
Keys == {"s", "S"}

KeyEvents == [target : Targets, key : Keys, mod : BOOLEAN]

\* containerRef.current.contains(e.target): the containers of the instances
\* are disjoint
Contains(i, target) == target = i

\* a listener that does not look at the target of the event
handleKeyDownAnyTarget(i, ev) ==
    ev.mod /\ ev.key = "s" /\ instances[i].mounted

\* handleKeyDown of instance i acts on the event: (metaKey || ctrlKey) and
\* key === "s" and the target is inside its container
handleKeyDown(i, ev) ==
    ev.mod /\ ev.key = "s" /\ instances[i].mounted /\ Contains(i, ev.target)

\* the listeners registered on document with capture, and those that act
Interceptors(ev) == {i \in Ids : instances[i].mounted /\ handleKeyDown(i, ev)}

\* a capture listener that lets the event go on to its target
StopPropagationNever(ev) == FALSE

\* e.stopPropagation() in a capture listener on document: the event does not
\* reach its target
StopPropagation(ev) == Interceptors(ev) # {}

\* editor.addCommand(CtrlCmd | KeyS, ...): the command of the widget that
\* holds the target runs when the event reaches it
Command(ev) ==
    IF /\ ~StopPropagation(ev)
       /\ ev.mod
       /\ ev.target \in Ids
       /\ instances[ev.target].editorRef # 0
    THEN {ev.target}
    ELSE {}

\* a create that hands out the widget it made first
NewEditorShared(n) == 1

\* monaco.editor.create(container, {value, ...}): a new widget with a model
\* of its own; no model and no identifier is passed
NewEditor(n) == n + 1

\* the effect of MolViewEditor: register the listener, initEditor
initEditor(i) ==
    /\ created < MaxCreates
    /\ created' = created + 1
    /\ instances' = [instances EXCEPT ![i] =
                        [mounted |-> TRUE, editorRef |-> NewEditor(created),
                         model |-> Null]]

\* the cleanup of the effect: removeEventListener, dispose, editorRef = null
disposeEditor(i) ==
    instances' = [instances EXCEPT ![i] = NoInstance]

MountEditor(i) ==
    /\ ~instances[i].mounted
    /\ initEditor(i)
    /\ keyEvent' = NoKey
    /\ UNCHANGED <<onSaveCalls, controllerVars, viewerVars, pollVars>>

\* the parent passes another onSave: the effect, with deps [onSave], is
\* cleaned up and runs again
ChangeOnSave(i) ==
    /\ instances[i].mounted
    /\ initEditor(i)
    /\ keyEvent' = NoKey
    /\ UNCHANGED <<onSaveCalls, controllerVars, viewerVars, pollVars>>

UnmountEditor(i) ==
    /\ instances[i].mounted
    /\ disposeEditor(i)
    /\ keyEvent' = NoKey
    /\ UNCHANGED <<created, onSaveCalls, controllerVars, viewerVars,
                   pollVars>>

\* a keydown event is dispatched: the capture listeners on document run,
\* then, unless propagation was stopped, the widget at the target
KeyDown(ev) ==
    /\ ev.target \in {0} \cup {i \in Ids : instances[i].mounted}
    /\ \A i \in Ids : onSaveCalls[i] < MaxSaves
    /\ onSaveCalls' =
          [i \in Ids |-> onSaveCalls[i]
                           + (IF i \in Interceptors(ev) THEN 1 ELSE 0)
                           + (IF i \in Command(ev) THEN 1 ELSE 0)]
    /\ keyEvent' = [target |-> ev.target, key |-> ev.key, mod |-> ev.mod,
                    preventedBy |-> Interceptors(ev),
                    stopped |-> StopPropagation(ev),
                    command |-> Command(ev)]
    /\ UNCHANGED <<instances, created, controllerVars, viewerVars,
                   pollVars>>

InitPage ==
    /\ InitController(FALSE, "", <<>>)
    /\ NoViewer("standalone")
    /\ molstar = FALSE
    /\ NoPage
    /\ NoPoll

NextPage ==
    \/ \E i \in Ids : MountEditor(i)
    \/ \E i \in Ids : ChangeOnSave(i)
    \/ \E i \in Ids : UnmountEditor(i)
    \/ \E ev \in KeyEvents : KeyDown(ev)

SpecPage == InitPage /\ [][NextPage]_vars

TypeOKPage ==
    /\ created \in 0..MaxCreates
    /\ \A i \in Ids :
          /\ onSaveCalls[i] \in 0..(MaxSaves + 1)
          /\ instances[i].mounted <=> (instances[i].editorRef # 0)
          /\ instances[i].editorRef \in 0..created

\* ------------------------------------------------------------------------
\* The MolViewEditor variant that polls for window.monaco
\* (MolViewEditor.tsx:254-359)
\* ------------------------------------------------------------------------

Widget(id, unmounted) ==
    [id |-> id, disposed |-> FALSE, afterUnmount |-> unmounted]

\* editorRef.current.dispose(): the widget ref names, if any, is disposed
Disposed(ws, ref) ==
    {IF w.id = ref THEN [w EXCEPT !.disposed = TRUE] ELSE w : w \in ws}

\* initEditor, called with ts timeouts pending, the widgets ws and whether
\* containerRef.current is set: without the global it re-arms itself with
\* setTimeout(initEditor, 100); with it, it creates a widget and stores it
\* in editorRef.current. With containerRef.current null (after unmount) the
\* create either throws or makes a widget.
initEditorPolling(ts, ws, ref, container) ==
    IF ~monaco
    THEN /\ pollTimeouts' = ts + 1
         /\ pollWidgets' = ws
         /\ pollEditorRef' = ref
         /\ pollEvent' = "polling"
    ELSE /\ pollTimeouts' = ts
         /\ \/ /\ pollWidgets' =
                     ws \cup {Widget(Cardinality(ws) + 1, ~container)}
               /\ pollEditorRef' = Cardinality(ws) + 1
               /\ pollEvent' = "created"
            \/ /\ ~container
               /\ pollWidgets' = ws
               /\ pollEditorRef' = ref
               /\ pollEvent' = "threw"

\* the mount effect runs for the first time
PollMount ==
    /\ pollLife = "none"
    /\ pollLife' = "mounted"
    /\ pollRuns' = 1
    /\ initEditorPolling(pollTimeouts, pollWidgets, pollEditorRef, TRUE)
    /\ UNCHANGED <<monaco, controllerVars, viewerVars, pageVars>>

\* the parent passes another onSave: the cleanup of the effect runs
\* (dispose what editorRef.current holds, no clearTimeout), then the effect
\* runs again
PollChangeOnSave ==
    /\ pollLife = "mounted"
    /\ pollRuns < MaxRuns
    /\ pollRuns' = pollRuns + 1
    /\ initEditorPolling(pollTimeouts, Disposed(pollWidgets, pollEditorRef),
                         0, TRUE)
    /\ UNCHANGED <<monaco, pollLife, controllerVars, viewerVars, pageVars>>

\* a pending setTimeout(initEditor, 100) fires, whether or not the instance
\* is still mounted
PollTimeout ==
    /\ pollTimeouts > 0
    /\ initEditorPolling(pollTimeouts - 1, pollWidgets, pollEditorRef,
                         pollLife = "mounted")
    /\ UNCHANGED <<monaco, pollLife, pollRuns, controllerVars, viewerVars,
                   pageVars>>

\* the script that defines window.monaco has loaded
MonacoLoads ==
    /\ ~monaco
    /\ monaco' = TRUE
    /\ pollEvent' = "other"
    /\ UNCHANGED <<pollLife, pollTimeouts, pollEditorRef, pollWidgets,
                   pollRuns, controllerVars, viewerVars, pageVars>>

\* unmount: the cleanup of the effect runs; containerRef.current is null
\* from now on
PollUnmount ==
    /\ pollLife = "mounted"
    /\ pollLife' = "gone"
    /\ pollWidgets' = Disposed(pollWidgets, pollEditorRef)
    /\ pollEditorRef' = 0
    /\ pollEvent' = "unmounted"
    /\ UNCHANGED <<monaco, pollTimeouts, pollRuns, controllerVars,
                   viewerVars, pageVars>>

InitPoll ==
    /\ InitController(FALSE, "", <<>>)
    /\ NoViewer("standalone")
    /\ molstar = FALSE
    /\ NoPage
    /\ monaco \in BOOLEAN
    /\ pollLife = "none"
    /\ pollTimeouts = 0
    /\ pollEditorRef = 0
    /\ pollWidgets = {}
    /\ pollRuns = 0
    /\ pollEvent = "other"

NextPoll ==
    \/ PollMount
    \/ PollChangeOnSave
    \/ PollTimeout
    \/ MonacoLoads
    \/ PollUnmount

SpecPoll == InitPoll /\ [][NextPoll]_vars

TypeOKPoll ==
    /\ monaco \in BOOLEAN
    /\ pollLife \in {"none", "mounted", "gone"}
    /\ pollRuns \in 0..MaxRuns
    /\ pollTimeouts \in 0..pollRuns
    /\ Cardinality(pollWidgets) <= pollRuns
    /\ pollEditorRef \in 0..Cardinality(pollWidgets)
    /\ pollEvent \in {"other", "polling", "created", "threw", "unmounted"}

\* ------------------------------------------------------------------------
\* Claims
\* ------------------------------------------------------------------------

LastLog == logs[Len(logs)]

\* C1: after a burst of change notifications in automatic mode, each less
\* than autoRunDelay after the one before, exactly one execution is started
\* by the debounce timer, with the text of the last notification: while the
\* timer of the burst is pending no debounced execution of the burst has
\* started and the timer carries the last text; once no timer is pending
\* exactly one has started, with the last text.
C1_BurstExecutesOnceWithLastText ==
    (mounted /\ burst.active /\ burst.auto) =>
        IF PendingDebounce = {}
        THEN burst.execs = 1 /\ burst.execCode = currentCode
        ELSE /\ burst.execs = 0
             /\ \A t \in PendingDebounce : t.code = currentCode

\* C2 as stated: at most one scheduled execution is pending, whether a
\* debounced edit or the mount-time auto-run scheduled it.
C2_AtMostOnePendingExecution == Cardinality(timers) <= 1

\* C2 as amended: at most one debounced execution is pending and it is the
\* one debounceTimerRef names (arming cancels the previous debounce timer);
\* the mount-time auto-run is a separate timer, at most one, that a debounced
\* edit does not cancel.
C2_AtMostOnePendingDebounce ==
    /\ Cardinality(PendingDebounce) <= 1
    /\ Cardinality(PendingMount) <= 1
    /\ \A t \in PendingDebounce : t.id = debounceTimerRef

\* a debounce timer was armed, and armed again while the first was pending
\* (no timer has fired yet: the ids went 2, 3), next to the mount-time timer
C2_RearmedBesideMountTimer ==
    /\ nStarted = 0
    /\ PendingMount # {}
    /\ \E t \in PendingDebounce : t.id = 3

\* C3: while automatic mode is off, a change notification never arms the
\* debounce timer.
C3_NoArmingWhileOff ==
    [][(currentCode' # currentCode /\ ~autoUpdateEnabled) => timers' = timers]_vars

\* C4: while automatic mode is on, every change notification (re)starts the
\* debounce timer with the notified text and the full delay.
C4_ChangeArmsTimerWhileOn ==
    [][(currentCode' # currentCode /\ autoUpdateEnabled) =>
          \E t \in timers' : /\ t.kind = "debounce"
                             /\ t.id = debounceTimerRef'
                             /\ t.code = currentCode'
                             /\ t.remaining = AutoRunDelay]_vars

\* C5: switching automatic mode off cancels the pending debounce timer.
C5_SwitchOffCancelsTimer ==
    [][(autoUpdateEnabled /\ ~autoUpdateEnabled') =>
          {t \in timers' : t.kind = "debounce"} = {}]_vars

\* the continuation of e has appended its terminal entry and set its result
ResultWritten(e) ==
    /\ appended' = appended + 1
    /\ Len(logs') > 0
    /\ LET last == logs'[Len(logs')] IN
       /\ last.timestamp = appended'
       /\ \/ last.level = "success" /\ mvsData' = Some(Doc(e))
          \/ last.level = "error" /\ error' = Some(last.message)

\* C6: an execution in flight is never cancelled: in every step, whatever
\* the event (switching automatic mode off included), each execution in
\* flight either stays in flight or settles and writes its log entry and its
\* result (scene document or error).
C6_InflightNeverCancelled ==
    [][\A e \in inflight :
          \/ \E f \in inflight' : f.id = e.id /\ f.code = e.code
          \/ ResultWritten(e)]_vars

\* automatic mode was switched off while an execution ran, is still off, and
\* the execution has settled and left its scene document
C6_SettledAfterSwitchOff ==
    /\ lastEvent = "settledAfterOff"
    /\ ~autoUpdateEnabled
    /\ mvsData # Null
    /\ LastLog.level = "success"

\* C7: a commit gesture starts an execution at once with the editor's
\* current text, whatever the controller state and the automatic-mode
\* setting: the step of the gesture logs the info entry and either leaves
\* the new execution in flight with that text or has it fail before the
\* await.
C7_CommitStartsExecution ==
    [][lastEvent' = "save" =>
          /\ nStarted' = nStarted + 1
          /\ \/ /\ appended' = appended + 1
                /\ logs'[Len(logs')].level = "info"
                /\ error' = Null
                /\ \E e \in inflight' :
                      /\ e.id = nStarted'
                      /\ e.code = editorValue
                      /\ inflight' = inflight \cup {e}
             \/ /\ appended' = appended + 2
                /\ logs'[Len(logs') - 1].level = "info"
                /\ logs'[Len(logs')].level = "error"
                /\ inflight' = inflight]_vars

\* a commit gesture in automatic mode, made while another execution is in
\* flight, has left its own execution in flight
C7_CommitInAutomaticMode ==
    /\ lastEvent = "save"
    /\ autoUpdateEnabled
    /\ \E e, f \in inflight : e.id # f.id /\ f.id = nStarted /\ f.code = editorValue

\* C8 as stated: once an execution has completed, exactly one of mvsData and
\* error is non-null.
C8_ExactlyOneOfSceneAndError ==
    (nStarted > Cardinality(inflight)) => ((mvsData # Null) # (error # Null))

\* C8 as amended: once an execution has completed and while none is in
\* flight, at least one of mvsData and error is non-null.
C8_SceneOrErrorWhenSettled ==
    (nStarted > 0 /\ inflight = {}) => (mvsData # Null \/ error # Null)

\* a failed execution after a successful one: both are non-null
C8_FailureAfterSuccess ==
    /\ inflight = {}
    /\ mvsData # Null
    /\ error # Null
    /\ LastLog.level = "error"

\* C9: a failed execution sets error to the message of what was thrown
\* (whenever there is one) and leaves mvsData as it was.
C9_FailureKeepsScene ==
    [][(appended' > appended /\ logs'[Len(logs')].level = "error") =>
          /\ mvsData' = mvsData
          /\ caught' # Null
          /\ error' = Some(ErrorMsg(caught'[1]))
          /\ error' = Some(logs'[Len(logs')].message)
          /\ (caught'[1] # "" => error' = caught')]_vars

\* an execution failed with the interpreter's message while a scene document
\* of an earlier execution was current
C9_FailedWithSceneCurrent ==
    /\ mvsData # Null
    /\ caught = Some("SyntaxError")
    /\ error = Some("SyntaxError")
    /\ LastLog.level = "error"

\* C10: the log never holds more than 100 entries, and it is exactly the
\* last min(N, 100) of the N entries appended, in the order of appending.
C10_LogHoldsLastEntries ==
    /\ Len(logs) <= LogCap
    /\ Len(logs) = Min(appended, LogCap)
    /\ \A i \in 1..Len(logs) : logs[i] = ScriptEntry(appended - Len(logs) + i)

\* more than 100 entries were appended and the oldest were evicted
C10_LogEvicted ==
    /\ appended > LogCap
    /\ Len(logs) = LogCap
    /\ logs[1].timestamp = appended - LogCap + 1

CountLevel(log, level) ==
    Cardinality({i \in 1..Len(log) : log[i].level = level})

Terminals(log) == CountLevel(log, "success") + CountLevel(log, "error")

\* C11: every execution appends one info entry when it starts and one
\* terminal entry (success or error) when it ends, the info entry first: as
\* long as nothing was evicted, the log holds one info entry per execution
\* started and one terminal entry per execution ended, every prefix of the
\* log holds at most as many terminal entries as info entries, and the two
\* numbers are equal whenever no execution is in flight.
C11_OneInfoOneTerminalPerExecution ==
    appended <= LogCap =>
        /\ CountLevel(logs, "info") = nStarted
        /\ Terminals(logs) = nStarted - Cardinality(inflight)
        /\ \A k \in 1..Len(logs) :
              Terminals(SubSeq(logs, 1, k)) <= CountLevel(SubSeq(logs, 1, k), "info")
        /\ inflight = {} => Terminals(logs) = CountLevel(logs, "info")

\* two overlapping executions have ended, one with a scene document and one
\* with an error
C11_TwoOverlappingExecutionsEnded ==
    /\ nStarted = 2 /\ inflight = {}
    /\ Len(logs) = 4
    /\ logs[1].level = "info" /\ logs[2].level = "info"
    /\ logs[3].level = "success" /\ logs[4].level = "error"

\* C12: once EditorWithViewer is unmounted, no timer of the instance is
\* pending (teardown cancels the debounce timer and the mount-time timer) and
\* no step starts an execution.
C12_NoExecutionStartsAfterUnmount ==
    [][~mounted' => /\ timers' = {}
                    /\ (~mounted => nStarted' = nStarted)]_vars

\* the instance was unmounted while its mount-time timer and a debounce
\* timer were both pending: no execution was ever started
C12_UnmountedWithBothTimersPending ==
    /\ ~mounted
    /\ autoRun /\ initialCode # ""
    /\ debounceTimerRef # NoTimer
    /\ nStarted = 0

\* what C13 says of the states reached without user input
C13_MountSafety ==
    ~userActed =>
        IF autoRun /\ initialCode # ""
        THEN /\ nStarted <= 1
             /\ nStarted = 0 =>
                   /\ Cardinality(timers) = 1
                   /\ \A t \in timers : t.kind = "mount" /\ t.code = initialCode
             /\ nStarted = 1 => timers = {}
             /\ \A e \in inflight : e.code = initialCode
             /\ (nStarted = 1 /\ inflight = {} /\ error = Null) =>
                   /\ Len(logs) = 2
                   /\ logs[1].level = "info" /\ logs[2].level = "success"
                   /\ mvsData = Some([exec |-> 1])
        ELSE timers = {} /\ nStarted = 0 /\ logs = <<>>

\* C13: mounting with autoRun on and a non-empty initialCode, with no user
\* input afterwards, leads to exactly one execution, of initialCode; when the
\* interpreter accepts it, the log after settling is one info entry followed
\* by one success entry and the scene document is non-null.  With autoRun
\* off or an empty initialCode nothing is scheduled at mount.
C13_MountRunsInitialCodeOnce ==
    /\ []C13_MountSafety
    /\ (autoRun /\ initialCode # "") =>
          <>(userActed \/ (nStarted = 1 /\ inflight = {}))

\* the mount-time execution has settled with a scene document, without any
\* user input
C13_MountExecutionSucceeded ==
    /\ ~userActed
    /\ nStarted = 1 /\ inflight = {}
    /\ mvsData # Null /\ error = Null
    /\ LastLog.level = "success"

\* C14: for one viewer handle at most one call of the engine's load method
\* is in flight: a load requested while an earlier one has not settled is
\* dropped and does not reach the engine.
C14_AtMostOneLoadInFlight == Cardinality(engineLoads) <= 1

\* a second load was requested while the first was in flight, and only the
\* first reached the engine
C14_SecondLoadDropped ==
    /\ viewerEvent = "dropped"
    /\ Cardinality(engineLoads) = 1
    /\ nLoads = 1
    /\ mvsDataProp \notin passed

\* C15: a load request that is dropped has no effect: the step calls neither
\* onError nor onMVSLoaded, leaves the loading flag, the engine and its calls
\* as they were and queues no re-render for it; and nothing retries it: the
\* engine's load method is only ever called by a queued load effect or by
\* the continuation of Viewer.create.
C15_DroppedLoadHasNoEffect ==
    [][/\ viewerEvent' = "dropped" =>
             /\ UNCHANGED loadVars
             /\ engine' = engine
             /\ viewerDirty' => viewerDirty
       /\ passed' # passed \/ nLoads' # nLoads =>
             pendingLoadEffect \/ initPc = "creating"]_vars

\* a standalone parent changed mvsData during a load: the request was
\* dropped, no callback has been called and the flag is still set
C15_DroppedUnderStandaloneParent ==
    /\ host = "standalone"
    /\ viewerEvent = "dropped"
    /\ engineLoads # {}
    /\ isLoading
    /\ onErrorCalls = 0 /\ onMVSLoadedCalls = 0

\* C16: under EditorWithViewer the engine's load is called only as a
\* consequence of a successful execution: every scene document passed to the
\* engine, and the one MolstarViewer is rendered with, was produced by an
\* execution that succeeded, and the step in which an execution fails
\* changes neither mvsData nor anything of the viewer.
C16_LoadOnlyAfterSuccess ==
    [][host = "EditorWithViewer" =>
          /\ passed' \subseteq {Some(d) : d \in produced'}
          /\ mvsDataProp' \in {Null} \cup {Some(d) : d \in produced'}
          /\ (appended' > appended /\ logs'[Len(logs')].level = "error") =>
                /\ mvsData' = mvsData
                /\ UNCHANGED viewerVars]_vars

\* a first execution succeeded and its document was loaded; a second one
\* failed and was rendered, and the engine was not called again
C16_FailureAfterLoadedScene ==
    /\ host = "EditorWithViewer"
    /\ nStarted = 2 /\ inflight = {}
    /\ error # Null
    /\ passed = {mvsData}
    /\ nLoads = 1 /\ engineLoads = {}
    /\ ~dirty /\ ~viewerDirty /\ ~pendingLoadEffect

\* what C17 says of the states after the timeout of the wait
C17_AfterTimeout ==
    initPc = "timedOut" =>
        /\ raised = 1
        /\ host = "standalone" => onErrorCalls = 1
        /\ engine = "none" /\ ~viewerRef
        /\ ~isInitialized
        /\ ~checkMolstar /\ ~timeoutPending
        /\ nLoads = 0 /\ engineLoads = {}

\* C17: when the engine global does not become available in time, the
\* mount attempt ends with the timeout: the wait is left, and after the
\* timeout onError has been called exactly once, no engine instance exists,
\* the placeholder is still shown (isInitialized is false) and nothing polls
\* or waits any more.
C17_TimeoutEndsMountAttempt ==
    /\ []C17_AfterTimeout
    /\ (initPc = "waiting") ~> (initPc # "waiting")

\* the global never appeared and the wait has timed out
C17_TimedOutWithoutGlobal ==
    /\ host = "standalone"
    /\ viewerLife = "mounted"
    /\ ~molstar
    /\ initPc = "timedOut"
    /\ onErrorCalls = 1

\* C18: after MolstarViewer is unmounted, no engine instance that the mount
\* created is left undisposed.
C18_NoEngineLeftAfterUnmount == viewerLife = "gone" => engine # "live"

\* C19: every error raised while MolstarViewer waits for the engine, creates
\* it or loads a scene is handed to onError in the step that raises it (one
\* call per error, when the parent passes onError), and after an error of a
\* load the loading flag is false.
C19_ErrorsReachOnError ==
    [][/\ raised' # raised =>
             /\ raised' = raised + 1
             /\ host = "standalone" => onErrorCalls' = onErrorCalls + 1
       /\ onErrorCalls' # onErrorCalls => raised' # raised
       /\ viewerEvent' = "loadFailed" => ~isLoading']_vars

\* a load has failed: onError was called once, onMVSLoaded never, and the flag is
\* reset
C19_LoadFailedAndReported ==
    /\ host = "standalone"
    /\ viewerEvent = "loadFailed"
    /\ nLoads = 1 /\ engineLoads = {}
    /\ onErrorCalls = 1 /\ onMVSLoadedCalls = 0
    /\ ~isLoading

\* C20: when dispose throws during the unmount of MolstarViewer, the error
\* is swallowed: onError is not called, nothing is raised, and viewerRef is
\* null afterwards.
C20_DisposeErrorSwallowed ==
    [][viewerEvent' = "disposeThrew" =>
          /\ onErrorCalls' = onErrorCalls
          /\ raised' = raised
          /\ ~viewerRef'
          /\ viewerLife' = "gone"]_vars

\* MolstarViewer was unmounted and dispose threw
C20_DisposeThrew ==
    /\ host = "standalone"
    /\ viewerLife = "gone"
    /\ viewerEvent = "disposeThrew"
    /\ engine = "disposeFailed"
    /\ ~viewerRef

\* C21: while MolstarViewer is mounted, isInitialized is false exactly when
\* viewerRef holds no engine and isLoading is true exactly when a call of
\* loadMvsData is in flight; whenever no re-render is queued the markup of
\* the last render agrees: the placeholder is in it exactly when there is no
\* engine handle, the overlay exactly when a load is in flight (so the
\* overlay is gone once the load has settled, either way).
C21_PlaceholderAndOverlayFollowState ==
    (viewerLife = "mounted") =>
        /\ isInitialized <=> viewerRef
        /\ isLoading <=> (engineLoads # {})
        /\ ~viewerDirty =>
              /\ ~renderedIsInitialized <=> ~viewerRef
              /\ renderedIsLoading <=> (engineLoads # {})

\* C21 witness: the load whose overlay the last render shows has just
\* failed: the engine handle exists, no load is in flight, isLoading is
\* false again and the render that removes the overlay is queued.
C21_OverlayRemovedAfterFailedLoad ==
    /\ viewerLife = "mounted"
    /\ viewerEvent = "loadFailed"
    /\ viewerRef
    /\ renderedIsInitialized
    /\ renderedIsLoading
    /\ engineLoads = {}
    /\ ~isLoading
    /\ viewerDirty

C23_NoEarlierErrorBesideLaterResult ==
    (mvsData # Null /\ error # Null) => errorOf >= mvsData[1].exec

\* C27: when executions overlap and complete in any order, once all of them
\* have settled the scene document and the error reflect the outcome of the
\* execution started last: if it succeeded, the document is the one it
\* produced and no error is current; if it failed, the current error is the
\* one it caught.
C27_LastStartedExecutionWins ==
    (nStarted > 0 /\ inflight = {}) =>
        IF [exec |-> nStarted] \in produced
        THEN mvsData = Some([exec |-> nStarted]) /\ error = Null
        ELSE errorOf = nStarted

\* C24: setting the editor's text to the text it already holds is a no-op:
\* in a step in which the sync effect runs (in a re-render, or after paint)
\* with an initialCode equal to the widget's text, setValue is not called and
\* no change notification is emitted: the text, currentCode, the timers and
\* the record of notifications are unchanged.
C24_SameTextIsNoOp ==
    [][(/\ mounted /\ mounted'
        /\ pendingSync # Null
        /\ pendingSync[1] = editorValue
        /\ dirty \/ pendingSync' = Null)
       => UNCHANGED <<editorValue, currentCode, timerVars, burst,
                      sinceEdit>>]_vars

\* C24 witness: the user typed "b" in automatic mode, the re-render passed
\* "b" back as initialCode, the sync effect has run with it and a tick has
\* passed: the timer armed by the keystroke is still the pending one, one
\* tick older.
C24_SyncedBackTypedText ==
    /\ mounted /\ ~dirty
    /\ pendingSync = Null
    /\ editorValue = "b" /\ currentCode = "b" /\ renderedCode = "b"
    /\ sinceEdit = 1
    /\ \E t \in timers : /\ t.kind = "debounce"
                         /\ t.id = debounceTimerRef
                         /\ t.code = "b"
                         /\ t.remaining = AutoRunDelay - 1

\* C28: inside EditorWithViewer the controller never overwrites text the
\* user typed: the sync effect, fed currentCode as initialCode, never calls
\* setValue with a text other than the one the widget holds, so the widget's
\* text changes only in steps that are keystrokes (no re-render is running
\* and the queued sync effect is left as it is).
C28_OnlyKeystrokesChangeTheText ==
    [][editorValue' # editorValue => (~dirty /\ pendingSync' = pendingSync)]_vars

\* C30: a commit gesture leaves the debounce timer untouched: the step of
\* the gesture changes neither the set of pending timers (nothing is
\* cancelled, nothing armed, no delay restarted) nor debounceTimerRef, so a
\* debounced execution that was pending is still pending after the commit.
C30_CommitLeavesTimers ==
    [][lastEvent' = "save" =>
          /\ timers' = timers
          /\ debounceTimerRef' = debounceTimerRef]_vars

\* C30 witness: a commit gesture was made while a debounced execution was
\* pending: the execution of the commit is in flight and the debounce timer
\* is still pending, with the typed text.
C30_CommitWhileDebouncePending ==
    /\ lastEvent = "save"
    /\ nStarted \in InflightIds
    /\ \E t \in PendingDebounce : t.id = debounceTimerRef /\ t.code = currentCode

\* C25: a Ctrl/Cmd+S key event is intercepted by a MolViewEditor instance
\* only when its target lies inside that instance's own container: in every
\* dispatch of a key event, an instance whose listener prevents the default
\* holds the target in its container and its onSave is called once; an
\* instance whose container does not hold the target neither prevents the
\* default nor has its onSave called; and the mounted instance that holds the
\* target of Ctrl/Cmd+"s" does intercept it.
C25_InterceptedOnlyInsideOwnContainer ==
    [][keyEvent' # NoKey =>
          \A i \in Ids :
             /\ i \in keyEvent'.preventedBy =>
                   /\ keyEvent'.target = i
                   /\ onSaveCalls'[i] = onSaveCalls[i] + 1
             /\ keyEvent'.target # i =>
                   /\ i \notin keyEvent'.preventedBy
                   /\ onSaveCalls'[i] = onSaveCalls[i]
             /\ (/\ keyEvent'.target = i
                 /\ keyEvent'.mod
                 /\ keyEvent'.key = "s") => i \in keyEvent'.preventedBy]_vars

\* C25 witness: with both instances mounted, Ctrl/Cmd+S was pressed inside
\* instance 2: instance 2 prevented the default and its onSave was called,
\* instance 1 did neither.
C25_SavedInsideSecondEditor ==
    /\ instances[1].mounted /\ instances[2].mounted
    /\ keyEvent.target = 2 /\ keyEvent.mod /\ keyEvent.key = "s"
    /\ keyEvent.preventedBy = {2}
    /\ onSaveCalls[1] = 0 /\ onSaveCalls[2] = 1

C29_OneSavePerGesture ==
    [][(keyEvent' # NoKey /\ keyEvent'.mod /\ keyEvent'.target \in Ids) =>
          /\ onSaveCalls'[keyEvent'.target] = onSaveCalls[keyEvent'.target] + 1
          /\ \A i \in Ids \ {keyEvent'.target} :
                onSaveCalls'[i] = onSaveCalls[i]
          /\ keyEvent'.preventedBy \cap keyEvent'.command = {}]_vars

\* C29 witness: Ctrl/Cmd+"s" was pressed inside instance 1: its listener
\* handled the event and stopped it, the widget's command did not run, and
\* onSave was called once.
C29_ListenerHandledCommandDidNot ==
    /\ keyEvent.target = 1 /\ keyEvent.mod /\ keyEvent.key = "s"
    /\ keyEvent.stopped
    /\ keyEvent.preventedBy = {1}
    /\ keyEvent.command = {}
    /\ onSaveCalls[1] = 1

\* C31: in the variant that polls for window.monaco, every widget that gets
\* created is disposed at unmount and no widget is created after unmount,
\* also when the component unmounts before the global is there: once the
\* instance is unmounted, every widget ever created is disposed and none was
\* created after the unmount.
C31_EveryWidgetDisposedAtUnmount ==
    (pollLife = "gone") =>
        \A w \in pollWidgets : w.disposed /\ ~w.afterUnmount

====
